---- MODULE Spec2Model ----
(***************************************************************************)
(* The chunk-then-summarize pipeline of the PDF summarizer: the Streamlit  *)
(* UI (src/summarizer/app.py) and its CLI twin                             *)
(* (src/summarizer/summarize_pdf.py).                                      *)
(*                                                                         *)
(* A text is a sequence of one-character strings.  The summarization       *)
(* capability (a transformers pipeline) is external: each invocation       *)
(* either raises or returns one of a small set of summary texts, chosen    *)
(* nondeterministically.  A capability instance is identified by the model *)
(* identifier it was loaded for.                                           *)
(***************************************************************************)
EXTENDS Integers, Sequences, FiniteSets, TLC

VARIABLES
    entry,            \* "ui" (app.py script), "cli" (summarize_pdf.py main), "call" (summarize_pdf_text called directly)
    pc,               \* position of the running program
    doc,              \* text of the PDF pages joined by the extractor, before .strip()
    text,             \* raw_text / text: the text handed to the pipeline
    per_chunk_words,  \* per_chunk_words slider / --chunk / max_words
    final_pass,       \* final_pass checkbox / --final-pass
    model_name,       \* model selected in the sidebar / --model
    max_length,       \* summarize_chunks' max_length parameter
    min_length,       \* summarize_chunks' min_length parameter
    w,                \* word count of the chunk of a stand-alone per-chunk request
    cache,            \* st.cache_resource of get_summarizer: model ids with a loaded instance
    summarizer,       \* the instance held in the local variable `summarizer`
    obtained,         \* model ids obtained by get_summarizer / pipeline() inside the pipeline call
    chunks,           \* chunks
    summaries,        \* chunk_summaries / summaries
    log,              \* the capability invocations of this run, in order
    result,           \* what the caller of the pipeline gets to see
    runs              \* number of script runs of this process so far

vars == <<entry, pc, doc, text, per_chunk_words, final_pass, model_name, max_length,
          min_length, w, cache, summarizer, obtained, chunks, summaries, log, result, runs>>

-----------------------------------------------------------------------------
(* Bounds of the model *)

MaxTextLen == 5       \* characters of a text given to the chunkers alone
MaxWords == 3         \* largest max_words given to the chunkers alone
MaxDocLen == 5        \* characters of a document given to the pipeline
MaxChunkWords == 2    \* largest per_chunk_words of a pipeline run
MaxW == 330           \* largest chunk word count of a stand-alone per-chunk request
MaxRuns == 2          \* script runs of one UI process

(* Program constants *)

DefaultMaxLength == 160    \* summarize_chunks(max_length=160); CLI max_length=160
DefaultMinLength == 60     \* summarize_chunks(min_length=60); CLI min_length=60
FinalMaxLength == 220      \* final pass max_length
FinalMinLength == 90       \* final pass min_length
MlFloor == 32              \* max(32, ...)
MlBase == 64               \* max(64, words // 2)
MnFloor == 16              \* max(16, ...) and ml - 16

DefaultModel == "facebook/bart-large-cnn"
Models == {"facebook/bart-large-cnn", "t5-small"}

Whitespace == {" ", "\n"}
TextChars == {" ", "\n", "a", "b"}
DocChars == {" ", "a", "b"}
Summaries == {<<"x">>, <<"y">>}

ConfiguredMaxLengths == {16, 31, 32, 33, 48, 64, 65, 100, 160, 220}
ConfiguredMinLengths == {0, 15, 16, 17, 47, 48, 60, 144, 200}

NoInstance == "none"

-----------------------------------------------------------------------------
(* Text utilities *)

Min(a, b) == IF a <= b THEN a ELSE b
Max(a, b) == IF a >= b THEN a ELSE b

SeqsUpTo(S, n) == UNION {[1..k -> S] : k \in 0..n}

\* str.split(): the maximal runs of non-whitespace characters, in order
RECURSIVE SplitScan(_, _, _, _)
SplitScan(s, i, cur, acc) ==
    IF i > Len(s)
    THEN IF cur = <<>> THEN acc ELSE Append(acc, cur)
    ELSE IF s[i] \in Whitespace
         THEN SplitScan(s, i + 1, <<>>, IF cur = <<>> THEN acc ELSE Append(acc, cur))
         ELSE SplitScan(s, i + 1, Append(cur, s[i]), acc)

Split(s) == SplitScan(s, 1, <<>>, <<>>)

\* str.strip(): leading and trailing whitespace removed
RECURSIVE LStrip(_)
LStrip(s) ==
    IF s # <<>> /\ s[1] \in Whitespace THEN LStrip(Tail(s)) ELSE s

RECURSIVE RStrip(_)
RStrip(s) ==
    IF s # <<>> /\ s[Len(s)] \in Whitespace THEN RStrip(SubSeq(s, 1, Len(s) - 1)) ELSE s

Strip(s) == RStrip(LStrip(s))

\* " ".join(words)
RECURSIVE Join(_)
Join(words) ==
    IF words = <<>> THEN <<>>
    ELSE IF Len(words) = 1 THEN words[1]
    ELSE words[1] \o <<" ">> \o Join(Tail(words))

\* words[i:j] with 0 <= i <= j (Python slice, clipped at the end of the list)
Slice(words, i, j) == SubSeq(words, i + 1, Min(j, Len(words)))

\* the concatenation of a sequence of sequences
RECURSIVE Flatten(_)
Flatten(ss) == IF ss = <<>> THEN <<>> ELSE ss[1] \o Flatten(Tail(ss))

-----------------------------------------------------------------------------
(* Chunkers *)

ChunkWindowSkip(words, i, max_words) == Slice(words, i, i + max_words - 1)

ChunkWindowOverlap(words, i, max_words) == Slice(words, i, i + max_words + 1)

\* words[i:i + max_words]
ChunkWindow(words, i, max_words) == Slice(words, i, i + max_words)

\* app.py chunk_text: for i in range(0, len(words), max_words)
RECURSIVE ChunkLoopUI(_, _, _, _)
ChunkLoopUI(words, i, max_words, acc) ==
    IF i >= Len(words) THEN acc
    ELSE LET chunk == Join(ChunkWindow(words, i, max_words))
         IN  ChunkLoopUI(words, i + max_words, max_words,
                         IF Strip(chunk) # <<>> THEN Append(acc, chunk) ELSE acc)

chunk_text_ui(t, max_words) == ChunkLoopUI(Split(t), 0, max_words, <<>>)

\* summarize_pdf.py chunk_text: the list comprehension with its `if words[i:i+max_words]`
RECURSIVE ChunkLoopCLI(_, _, _, _)
ChunkLoopCLI(words, i, max_words, acc) ==
    IF i >= Len(words) THEN acc
    ELSE ChunkLoopCLI(words, i + max_words, max_words,
                      IF ChunkWindow(words, i, max_words) # <<>>
                      THEN Append(acc, Join(ChunkWindow(words, i, max_words)))
                      ELSE acc)

chunk_text_cli(t, max_words) == ChunkLoopCLI(Split(t), 0, max_words, <<>>)

chunk_text(e, t, max_words) ==
    IF e = "cli" THEN chunk_text_cli(t, max_words) ELSE chunk_text_ui(t, max_words)

-----------------------------------------------------------------------------
(* Per-chunk length window of summarize_chunks *)

\* ml = max(32, min(max_length, max(64, len(ch.split()) // 2)))
AdaptiveMl(words, maxlen) == Max(MlFloor, Min(maxlen, Max(MlBase, words \div 2)))

AdaptiveMnNoCap(minlen, ml) == Max(MnFloor, minlen)

\* mn = max(16, min(min_length, ml - 16))
AdaptiveMn(minlen, ml) == Max(MnFloor, Min(minlen, ml - MnFloor))

-----------------------------------------------------------------------------
(* The capability cache and the invocation log *)

\* get_summarizer(model_name): the cached instance for model_name, loaded on a miss
CacheAfterGet(c, m) == c \cup {m}

\* one invocation summarizer(text, max_length=.., min_length=.., do_sample=False)
Invocation(inst, t, ml, mn, raised, out) ==
    [model |-> inst, text |-> t, max_length |-> ml, min_length |-> mn,
     raised |-> raised, out |-> out]

NoResult == [status |-> "none", returned |-> FALSE, final |-> <<>>, chunk_summaries |-> <<>>]

\* return final, chunk_summaries
Returned(final, cs) ==
    [status |-> "ok", returned |-> TRUE, final |-> final, chunk_summaries |-> cs]

NoText == [status |-> "notext", returned |-> FALSE, final |-> <<>>, chunk_summaries |-> <<>>]

Failed == [status |-> "error", returned |-> FALSE, final |-> <<>>, chunk_summaries |-> <<>>]

-----------------------------------------------------------------------------
(* State of a process before anything ran *)

Idle ==
    /\ cache = {}
    /\ summarizer = NoInstance
    /\ obtained = <<>>
    /\ chunks = <<>>
    /\ summaries = <<>>
    /\ log = <<>>
    /\ result = NoResult
    /\ runs = 1

-----------------------------------------------------------------------------
(* The pipeline: app.py (script and summarize_pdf_text) and summarize_pdf.py *)

Init ==
    /\ entry \in {"ui", "cli", "call"}
    /\ doc \in SeqsUpTo(DocChars, MaxDocLen)
    /\ per_chunk_words \in 1..MaxChunkWords
    /\ final_pass \in BOOLEAN
    /\ model_name \in (IF entry = "call" THEN {DefaultModel} ELSE Models)
    /\ max_length = DefaultMaxLength
    /\ min_length = DefaultMinLength
    /\ w = 0
    /\ text = (IF entry = "call" THEN doc ELSE <<>>)
    /\ pc = (CASE entry = "ui" -> "ui_start" [] entry = "cli" -> "cli_start" [] OTHER -> "spt")
    /\ Idle

\* app.py: raw_text = extract_text_from_pdf(uploaded_pdf); if not raw_text: st.error(...)
UIExtract ==
    /\ pc = "ui_start"
    /\ text' = Strip(doc)
    /\ IF Strip(doc) = <<>>
       THEN result' = NoText /\ pc' = "done"
       ELSE result' = result /\ pc' = "ui_ready"
    /\ UNCHANGED <<entry, doc, per_chunk_words, final_pass, model_name, max_length,
                   min_length, w, cache, summarizer, obtained, chunks, summaries, log, runs>>

\* app.py: if st.button("Summarize"): get_summarizer.clear(); _ = get_summarizer(model_name)
ClickSummarize ==
    /\ pc = "ui_ready"
    /\ cache' = CacheAfterGet({}, model_name)
    /\ pc' = "spt"
    /\ UNCHANGED <<entry, doc, text, per_chunk_words, final_pass, model_name, max_length,
                   min_length, w, summarizer, obtained, chunks, summaries, log, result, runs>>

SptGuardNoEarlyReturn ==
    /\ pc = "spt"
    /\ chunks' = chunk_text(entry, text, per_chunk_words)
    /\ pc' = "sc"
    /\ UNCHANGED <<entry, doc, text, per_chunk_words, final_pass, model_name, max_length,
                   min_length, w, cache, summarizer, obtained, summaries, log, result, runs>>

\* summarize_pdf_text: the two guards and chunk_text
SptGuard ==
    /\ pc = "spt"
    /\ IF text = <<>> \/ Strip(text) = <<>>
       THEN chunks' = chunks /\ result' = Returned(<<>>, <<>>) /\ pc' = "done"
       ELSE /\ chunks' = chunk_text(entry, text, per_chunk_words)
            /\ IF Len(chunks') = 0
               THEN result' = Returned(<<>>, <<>>) /\ pc' = "done"
               ELSE result' = result /\ pc' = "sc"
    /\ UNCHANGED <<entry, doc, text, per_chunk_words, final_pass, model_name, max_length,
                   min_length, w, cache, summarizer, obtained, summaries, log, runs>>

\* summarize_chunks: summarizer = get_summarizer(kwargs.get("model_name", "facebook/bart-large-cnn"))
\* (summarize_pdf_text passes no model_name)
ScGet ==
    /\ pc = "sc"
    /\ cache' = CacheAfterGet(cache, DefaultModel)
    /\ summarizer' = DefaultModel
    /\ obtained' = Append(obtained, DefaultModel)
    /\ summaries' = <<>>
    /\ pc' = "sc_loop"
    /\ UNCHANGED <<entry, doc, text, per_chunk_words, final_pass, model_name, max_length,
                   min_length, w, chunks, log, result, runs>>

\* the request summarize_chunks makes for a chunk of `words` words
PerChunkRequest(inst, ch, words, maxlen, minlen, raised, out) ==
    Invocation(inst, ch, AdaptiveMl(words, maxlen),
               AdaptiveMn(minlen, AdaptiveMl(words, maxlen)), raised, out)

ScStepReversed ==
    /\ pc = "sc_loop"
    /\ Len(summaries) < Len(chunks)
    /\ LET ch == chunks[Len(chunks) - Len(summaries)]
       IN  \E out \in Summaries :
              /\ log' = Append(log, PerChunkRequest(summarizer, ch, Len(Split(ch)),
                                                    max_length, min_length, FALSE, out))
              /\ summaries' = Append(summaries, out)
              /\ pc' = pc
    /\ UNCHANGED <<entry, doc, text, per_chunk_words, final_pass, model_name, max_length,
                   min_length, w, cache, summarizer, obtained, chunks, result, runs>>

\* summarize_chunks: one iteration of the loop over chunks
ScStep ==
    /\ pc = "sc_loop"
    /\ Len(summaries) < Len(chunks)
    /\ LET ch == chunks[Len(summaries) + 1]
       IN  \/ \E out \in Summaries :
                 /\ log' = Append(log, PerChunkRequest(summarizer, ch, Len(Split(ch)),
                                                       max_length, min_length, FALSE, out))
                 /\ summaries' = Append(summaries, out)
                 /\ pc' = pc
           \/ /\ log' = Append(log, PerChunkRequest(summarizer, ch, Len(Split(ch)),
                                                    max_length, min_length, TRUE, <<>>))
              /\ summaries' = summaries
              /\ pc' = "raised"
    /\ UNCHANGED <<entry, doc, text, per_chunk_words, final_pass, model_name, max_length,
                   min_length, w, cache, summarizer, obtained, chunks, result, runs>>

FinalPassInputNoSpace(cs) == Flatten(cs)

\* joined = " ".join(chunk_summaries)
FinalPassInput(cs) == Join(cs)

\* the final-pass request: summarizer(joined, max_length=220, min_length=90, do_sample=False)
FinalRequest(inst, cs, raised, out) ==
    Invocation(inst, FinalPassInput(cs), FinalMaxLength, FinalMinLength, raised, out)

SptFinalAlways ==
    /\ pc = "sc_loop"
    /\ Len(summaries) = Len(chunks)
    /\ IF final_pass
       THEN /\ cache' = CacheAfterGet(cache, DefaultModel)
            /\ summarizer' = DefaultModel
            /\ obtained' = Append(obtained, DefaultModel)
            /\ \E out \in Summaries :
                  /\ log' = Append(log, FinalRequest(DefaultModel, summaries, FALSE, out))
                  /\ result' = Returned(out, summaries)
                  /\ pc' = "done"
       ELSE /\ UNCHANGED <<cache, summarizer, obtained, log>>
            /\ result' = Returned(summaries[1], summaries)
            /\ pc' = "done"
    /\ UNCHANGED <<entry, doc, text, per_chunk_words, final_pass, model_name, max_length,
                   min_length, w, chunks, summaries, runs>>

\* summarize_pdf_text after summarize_chunks returned: the final pass or chunk_summaries[0]
SptFinal ==
    /\ pc = "sc_loop"
    /\ Len(summaries) = Len(chunks)
    /\ IF final_pass /\ Len(summaries) > 1
       THEN /\ cache' = CacheAfterGet(cache, DefaultModel)
            /\ summarizer' = DefaultModel
            /\ obtained' = Append(obtained, DefaultModel)
            /\ \/ \E out \in Summaries :
                     /\ log' = Append(log, FinalRequest(DefaultModel, summaries, FALSE, out))
                     /\ result' = Returned(out, summaries)
                     /\ pc' = "done"
               \/ /\ log' = Append(log, FinalRequest(DefaultModel, summaries, TRUE, <<>>))
                  /\ result' = result
                  /\ pc' = "raised"
       ELSE /\ UNCHANGED <<cache, summarizer, obtained, log>>
            /\ IF summaries = <<>>
               THEN result' = result /\ pc' = "raised"       \* chunk_summaries[0]: IndexError
               ELSE result' = Returned(summaries[1], summaries) /\ pc' = "done"
    /\ UNCHANGED <<entry, doc, text, per_chunk_words, final_pass, model_name, max_length,
                   min_length, w, chunks, summaries, runs>>

PropagatePartial ==
    /\ pc = "raised"
    /\ result' = Returned(Join(summaries), summaries)
    /\ pc' = "done"
    /\ UNCHANGED <<entry, doc, text, per_chunk_words, final_pass, model_name, max_length,
                   min_length, w, cache, summarizer, obtained, chunks, summaries, log, runs>>

\* an exception of the capability leaves summarize_chunks and summarize_pdf_text (no try in
\* either) and reaches app.py's `except Exception as e: st.exception(e)`, the caller of
\* summarize_pdf_text, or the top of summarize_pdf.py's main
Propagate ==
    /\ pc = "raised"
    /\ result' = Failed
    /\ pc' = "done"
    /\ UNCHANGED <<entry, doc, text, per_chunk_words, final_pass, model_name, max_length,
                   min_length, w, cache, summarizer, obtained, chunks, summaries, log, runs>>

\* Streamlit runs the script again on a widget change (the uploaded file stays, the
\* sidebar settings may differ); the resource cache persists across runs
Rerun ==
    /\ pc = "done"
    /\ entry = "ui"
    /\ runs < MaxRuns
    /\ runs' = runs + 1
    /\ doc' = doc
    /\ per_chunk_words' \in 1..MaxChunkWords
    /\ final_pass' \in BOOLEAN
    /\ model_name' \in Models
    /\ text' = <<>>
    /\ summarizer' = NoInstance
    /\ obtained' = <<>>
    /\ chunks' = <<>>
    /\ summaries' = <<>>
    /\ log' = <<>>
    /\ result' = NoResult
    /\ pc' = "ui_start"
    /\ UNCHANGED <<entry, max_length, min_length, w, cache>>

\* summarize_pdf.py main: text = extract_text(args.pdf); if not text: print(...); return
CliExtract ==
    /\ pc = "cli_start"
    /\ text' = Strip(doc)
    /\ IF Strip(doc) = <<>>
       THEN result' = NoText /\ pc' = "done"
       ELSE result' = result /\ pc' = "cli_chunk"
    /\ UNCHANGED <<entry, doc, per_chunk_words, final_pass, model_name, max_length,
                   min_length, w, cache, summarizer, obtained, chunks, summaries, log, runs>>

\* main: chunks = chunk_text(text, max_words=args.chunk); summarizer = pipeline(..., model=args.model)
CliChunk ==
    /\ pc = "cli_chunk"
    /\ chunks' = chunk_text(entry, text, per_chunk_words)
    /\ summarizer' = model_name
    /\ obtained' = Append(obtained, model_name)
    /\ summaries' = <<>>
    /\ pc' = "cli_loop"
    /\ UNCHANGED <<entry, doc, text, per_chunk_words, final_pass, model_name, max_length,
                   min_length, w, cache, log, result, runs>>

\* the CLI's per-chunk request: summarizer(ch, max_length=160, min_length=60, do_sample=False)
CliRequest(inst, ch, raised, out) ==
    Invocation(inst, ch, DefaultMaxLength, DefaultMinLength, raised, out)

\* main: one iteration of the loop over chunks
CliStep ==
    /\ pc = "cli_loop"
    /\ Len(summaries) < Len(chunks)
    /\ LET ch == chunks[Len(summaries) + 1]
       IN  \/ \E out \in Summaries :
                 /\ log' = Append(log, CliRequest(summarizer, ch, FALSE, out))
                 /\ summaries' = Append(summaries, out)
                 /\ pc' = pc
           \/ /\ log' = Append(log, CliRequest(summarizer, ch, TRUE, <<>>))
              /\ summaries' = summaries
              /\ pc' = "raised"
    /\ UNCHANGED <<entry, doc, text, per_chunk_words, final_pass, model_name, max_length,
                   min_length, w, cache, summarizer, obtained, chunks, result, runs>>

\* main: final = " ".join(summaries); the final pass; print(final)
CliFinal ==
    /\ pc = "cli_loop"
    /\ Len(summaries) = Len(chunks)
    /\ IF final_pass /\ Len(summaries) > 1
       THEN \/ \E out \in Summaries :
                  /\ log' = Append(log, FinalRequest(summarizer, summaries, FALSE, out))
                  /\ result' = Returned(out, summaries)
                  /\ pc' = "done"
            \/ /\ log' = Append(log, FinalRequest(summarizer, summaries, TRUE, <<>>))
               /\ result' = result
               /\ pc' = "raised"
       ELSE /\ log' = log
            /\ result' = Returned(FinalPassInput(summaries), summaries)
            /\ pc' = "done"
    /\ UNCHANGED <<entry, doc, text, per_chunk_words, final_pass, model_name, max_length,
                   min_length, w, cache, summarizer, obtained, chunks, summaries, runs>>

Next ==
    \/ UIExtract
    \/ ClickSummarize
    \/ SptGuard
    \/ ScGet
    \/ ScStep
    \/ SptFinal
    \/ Propagate
    \/ Rerun
    \/ CliExtract
    \/ CliChunk
    \/ CliStep
    \/ CliFinal

Spec == Init /\ [][Next]_vars

-----------------------------------------------------------------------------
(* The chunkers alone, on texts with both kinds of whitespace *)

InitChunk ==
    /\ entry = "none"
    /\ doc = <<>>
    /\ text \in SeqsUpTo(TextChars, MaxTextLen)
    /\ per_chunk_words \in 1..MaxWords
    /\ final_pass = FALSE
    /\ model_name = DefaultModel
    /\ max_length = DefaultMaxLength
    /\ min_length = DefaultMinLength
    /\ w = 0
    /\ pc = "chunk_start"
    /\ Idle

\* app.py chunk_text(text, max_words)
ApplyChunkUI ==
    /\ pc = "chunk_start"
    /\ entry' = "ui"
    /\ chunks' = chunk_text("ui", text, per_chunk_words)
    /\ pc' = "chunked"
    /\ UNCHANGED <<doc, text, per_chunk_words, final_pass, model_name, max_length, min_length,
                   w, cache, summarizer, obtained, summaries, log, result, runs>>

\* summarize_pdf.py chunk_text(text, max_words)
ApplyChunkCLI ==
    /\ pc = "chunk_start"
    /\ entry' = "cli"
    /\ chunks' = chunk_text("cli", text, per_chunk_words)
    /\ pc' = "chunked"
    /\ UNCHANGED <<doc, text, per_chunk_words, final_pass, model_name, max_length, min_length,
                   w, cache, summarizer, obtained, summaries, log, result, runs>>

NextChunk ==
    \/ ApplyChunkUI
    \/ ApplyChunkCLI

SpecChunk == InitChunk /\ [][NextChunk]_vars

-----------------------------------------------------------------------------
(* One per-chunk request alone, for a chunk of w words and any configured window *)

InitClamp ==
    /\ entry = "none"
    /\ doc = <<>>
    /\ text = <<>>
    /\ per_chunk_words = 1
    /\ final_pass = FALSE
    /\ model_name = DefaultModel
    /\ max_length \in ConfiguredMaxLengths
    /\ min_length \in ConfiguredMinLengths
    /\ w \in 1..MaxW
    /\ pc = "request_start"
    /\ Idle

\* summarize_chunks(chunks, max_length, min_length): the request for a chunk of w words
RequestUI ==
    /\ pc = "request_start"
    /\ entry' = "ui"
    /\ log' = Append(log, PerChunkRequest(DefaultModel, <<>>, w, max_length, min_length,
                                          FALSE, <<>>))
    /\ pc' = "requested"
    /\ UNCHANGED <<doc, text, per_chunk_words, final_pass, model_name, max_length, min_length,
                   w, cache, summarizer, obtained, chunks, summaries, result, runs>>

\* summarize_pdf.py: the request for a chunk of w words; its window is fixed at 160/60
RequestCLI ==
    /\ pc = "request_start"
    /\ max_length = DefaultMaxLength
    /\ min_length = DefaultMinLength
    /\ entry' = "cli"
    /\ log' = Append(log, CliRequest(DefaultModel, <<>>, FALSE, <<>>))
    /\ pc' = "requested"
    /\ UNCHANGED <<doc, text, per_chunk_words, final_pass, model_name, max_length, min_length,
                   w, cache, summarizer, obtained, chunks, summaries, result, runs>>

NextClamp ==
    \/ RequestUI
    \/ RequestCLI

SpecClamp == InitClamp /\ [][NextClamp]_vars

-----------------------------------------------------------------------------
(* Properties *)

\* the whitespace-split word sequences of the chunks, concatenated in order
ChunkWords == Flatten([k \in 1..Len(chunks) |-> Split(chunks[k])])

HasRaised == \E k \in 1..Len(log) : log[k].raised

\* C1 (SpecChunk): lossless partition.  For every text and every positive max_words, the
\* word sequences of the chunks returned by either chunker, concatenated in order, are
\* exactly the word sequence of the text: no word is lost, duplicated or reordered.
C1_LosslessPartition ==
    pc = "chunked" => ChunkWords = Split(text)

C1_Witness ==
    /\ pc = "chunked"
    /\ entry = "ui"
    /\ Len(chunks) >= 2
    /\ text[1] \in Whitespace
    /\ Len(text) > Len(Join(chunks))

\* C2 (SpecChunk): chunk size bound.  Every chunk but the last has exactly max_words
\* words, the last has between 1 and max_words words, no chunk is empty, and an empty or
\* whitespace-only text gives the empty sequence of chunks.
C2_ChunkSizeBound ==
    pc = "chunked" =>
        /\ \A k \in 1..Len(chunks) :
              /\ chunks[k] # <<>>
              /\ k < Len(chunks) => Len(Split(chunks[k])) = per_chunk_words
              /\ k = Len(chunks) => Len(Split(chunks[k])) \in 1..per_chunk_words
        /\ (text = <<>> \/ Strip(text) = <<>>) => chunks = <<>>

C2_Witness ==
    /\ pc = "chunked"
    /\ entry = "cli"
    /\ per_chunk_words = 2
    /\ Len(chunks) = 2
    /\ Len(Split(chunks[2])) = 1

\* the max_length the request was configured with: the max_length parameter of
\* summarize_chunks in the UI, the fixed 160 in the CLI
ConfiguredMaxLength == IF entry = "cli" THEN DefaultMaxLength ELSE max_length

\* C3 as stated (SpecClamp): every per-chunk request has
\* 16 <= min_length < max_length <= configured max_length and max_length >= 32,
\* for every configured max_length and min_length.
C3_ClampAsStated ==
    \A k \in 1..Len(log) :
        /\ MnFloor <= log[k].min_length
        /\ log[k].min_length < log[k].max_length
        /\ log[k].max_length <= ConfiguredMaxLength
        /\ log[k].max_length >= MlFloor

\* C3 amended (SpecClamp): every per-chunk request has
\* 16 <= min_length < max_length <= max(32, configured max_length) and max_length >= 32:
\* the floor of 32 wins over a configured max_length below 32.
C3_AdaptiveBoundClamp ==
    \A k \in 1..Len(log) :
        /\ MnFloor <= log[k].min_length
        /\ log[k].min_length < log[k].max_length
        /\ log[k].max_length <= Max(MlFloor, ConfiguredMaxLength)
        /\ log[k].max_length >= MlFloor

C3_Witness ==
    /\ pc = "requested"
    /\ entry = "ui"
    /\ log[1].max_length = w \div 2
    /\ log[1].max_length < max_length
    /\ log[1].min_length = log[1].max_length - MnFloor
    /\ log[1].min_length < min_length

\* C4 (Spec): empty-input sentinel.  When summarize_pdf_text is given an empty or
\* whitespace-only text, it returns ("", []) without raising, and the capability is
\* neither obtained nor invoked during the call.
C4_EmptyInputSentinel ==
    (entry = "call" /\ Strip(text) = <<>>) =>
        /\ log = <<>>
        /\ obtained = <<>>
        /\ cache = {}
        /\ pc \in {"spt", "done"}
        /\ pc = "done" => result = Returned(<<>>, <<>>)

C4_Witness ==
    /\ entry = "call"
    /\ pc = "done"
    /\ text # <<>>
    /\ Strip(text) = <<>>

\* C5 (Spec): single-chunk shortcut.  When chunking gives exactly one chunk, the final
\* summary is that chunk's summary whatever final_pass is, and the capability is invoked
\* exactly once in the whole run.
C5_SingleChunkShortcut ==
    Len(chunks) = 1 =>
        /\ Len(log) <= 1
        /\ (pc = "done" /\ result.returned) =>
              /\ Len(log) = 1
              /\ log[1].text = chunks[1]
              /\ result.final = log[1].out

C5_Witness ==
    /\ pc = "done"
    /\ result.returned
    /\ Len(chunks) = 1
    /\ final_pass
    /\ entry = "ui"

\* C6 (Spec): final pass.  The capability is invoked one more time exactly when final_pass
\* is true and there is more than one chunk summary; that invocation comes after all the
\* per-chunk invocations, its input is the single-space join of the chunk summaries in
\* chunk order, its window is max 220 / min 90, and its output is the returned final summary.
C6_FinalPass ==
    LET n == Len(chunks)
    IN  /\ Len(log) <= n + 1
        /\ Len(log) = n + 1 =>
              /\ n >= 1
              /\ final_pass /\ n > 1
              /\ Len(summaries) = n
              /\ \A k \in 1..n : ~log[k].raised /\ log[k].text = chunks[k]
              /\ log[n + 1].text = Join([k \in 1..n |-> log[k].out])
              /\ log[n + 1].max_length = FinalMaxLength
              /\ log[n + 1].min_length = FinalMinLength
        /\ (pc = "done" /\ result.returned /\ n >= 1) =>
              /\ Len(log) = n + 1 <=> (final_pass /\ n > 1)
              /\ Len(log) = n + 1 => result.final = log[n + 1].out

C6_Witness ==
    /\ pc = "done"
    /\ result.returned
    /\ Len(chunks) = 3
    /\ Len(log) = 4
    /\ log[1].out # log[2].out
    /\ log[4].text = <<"x", " ", "y", " ", "x">>

\* C7 (Spec): fail-fast.  When the capability raises on a chunk or on the final pass, the
\* run fails with that error: the caller gets no final summary and no list of chunk
\* summaries, the failed invocation is the last one of the run (nothing is invoked for
\* later chunks, nothing is retried).
C7_FailFast ==
    /\ \A k \in 1..Len(log) : log[k].raised => k = Len(log)
    /\ HasRaised =>
          /\ pc \in {"raised", "done"}
          /\ ~result.returned
          /\ result.final = <<>>
          /\ result.chunk_summaries = <<>>
          /\ pc = "done" => result = Failed

C7_Witness ==
    /\ pc = "done"
    /\ entry = "ui"
    /\ Len(chunks) = 3
    /\ Len(log) = 2
    /\ log[2].raised
    /\ Len(summaries) = 1
    /\ result = Failed

\* C8 (Spec): order preservation.  The capability is invoked on the chunks in source order,
\* one at a time and once per chunk, and on a successful run the returned list of chunk
\* summaries has the length of the list of chunks, its k-th element being the
\* capability's output for the k-th chunk.
C8_OrderPreservation ==
    LET n == Len(chunks)
    IN  /\ \A k \in 1..Len(log) : k <= n => log[k].text = chunks[k]
        /\ Len(summaries) <= Len(log)
        /\ \A k \in 1..Len(summaries) : summaries[k] = log[k].out
        /\ (pc = "done" /\ result.returned /\ n >= 1) =>
              /\ Len(result.chunk_summaries) = n
              /\ Len(log) >= n
              /\ \A k \in 1..n :
                    /\ ~log[k].raised
                    /\ result.chunk_summaries[k] = log[k].out

C8_Witness ==
    /\ pc = "done"
    /\ result.returned
    /\ Len(chunks) = 3
    /\ chunks[1] # chunks[2]
    /\ result.chunk_summaries = << <<"x">>, <<"y">>, <<"y">> >>

\* C9 as stated (Spec): every capability invocation of a UI run is served by the instance
\* loaded for the model identifier selected for that run.
C9_SelectedModelServes ==
    entry = "ui" => \A k \in 1..Len(log) : log[k].model = model_name

\* C10 as stated (Spec): with final_pass false and more than one chunk, the final summary
\* the caller sees is the first chunk summary only, in the UI pipeline and in the CLI alike.
C10_FirstSummaryOnly ==
    (pc = "done" /\ result.returned /\ ~final_pass /\ Len(chunks) > 1) =>
        result.final = result.chunk_summaries[1]

====
